---------------------------- MODULE Spec2Model ----------------------------
(***************************************************************************)
(* Model of backup.py: one invocation of main() reconciles a local         *)
(* directory of timestamped .zip archives against an S3 bucket.  Two       *)
(* invocations (Runs) share the bucket, the directory, the configuration   *)
(* file and the wall clock; each keeps main()'s local variables.           *)
(*                                                                         *)
(* Strings are sequences of tokens.  A timestamp has two fields, a date    *)
(* and a time of day, each one digit wide; the directive "%d" stands for   *)
(* the date part of a format and "%S" for its time part.  Instants are     *)
(* counted in ticks, TicksPerSecond to the second: strptime yields whole   *)
(* seconds, datetime.now() any tick.                                       *)
(***************************************************************************)
EXTENDS Integers, Sequences, FiniteSets, TLC

\* ------------------------------------------------------------- bounds
MaxDigit == 1
TicksPerSecond == 2
MaxSeconds == 2
MaxEntries == 3
MaxStored == 1

Runs == {1, 2}

\* The wall clock's readings, in ticks.
MaxClock == MaxSeconds * TicksPerSecond

\* ------------------------------------------------------------ strings
ZIP == <<".", "zip">>

Last(s) == s[Len(s)]

Front(s) == SubSeq(s, 1, Len(s) - 1)

startswith(s, p) == Len(p) <= Len(s) /\ SubSeq(s, 1, Len(p)) = p

\* str.rfind: the last position of token c in s, 0 when there is none.
rfind(s, c) ==
    LET hits == {i \in 1..Len(s) : s[i] = c}
    IN IF hits = {} THEN 0 ELSE CHOOSE i \in hits : \A j \in hits : j <= i

lower(tok) == IF tok = "ZIP" THEN "zip" ELSE tok

RECURSIVE PathName(_)
\* pathlib's Path(s).name: the last component, trailing separators and "."
\* components dropped; empty when nothing is left.
PathName(s) ==
    IF s = <<>> THEN <<>>
    ELSE IF Last(s) = "/" THEN PathName(Front(s))
    ELSE LET cut == rfind(s, "/")
             comp == SubSeq(s, cut + 1, Len(s))
         IN IF comp = <<".">> THEN PathName(SubSeq(s, 1, cut)) ELSE comp

\* pathlib's suffix of a name: from its last dot, unless that dot is the
\* first or the last token of the name.
PathSuffix(name) ==
    LET i == rfind(name, ".")
    IN IF 1 < i /\ i < Len(name) THEN SubSeq(name, i, Len(name)) ELSE <<>>

\* path.with_suffix('').name, for a path whose name is not empty.
with_suffix_empty(name) == SubSeq(name, 1, Len(name) - Len(PathSuffix(name)))

\* ------------------------------------------------------------- datetimes
None == [none |-> TRUE]

Digits == 0..MaxDigit

Timestamps == [date : Digits, time : Digits]

Epoch == [date |-> 0, time |-> 0]

SecondsPerDay == MaxDigit + 1

\* The instant of a timestamp, in ticks.
Ticks(ts) == (ts.date * SecondsPerDay + ts.time) * TicksPerSecond

IsDigit(tok) == \E n \in Digits : ToString(n) = tok

DigitValue(tok) == CHOOSE n \in Digits : ToString(n) = tok

RECURSIVE strptime_from(_, _, _)
strptime_from(raw, fmt, acc) ==
    IF fmt = <<>> THEN (IF raw = <<>> THEN acc ELSE None)
    ELSE IF raw = <<>> THEN None
    ELSE IF Head(fmt) = "%d"
         THEN IF IsDigit(Head(raw))
              THEN strptime_from(Tail(raw), Tail(fmt),
                                 [acc EXCEPT !.date = DigitValue(Head(raw))])
              ELSE None
    ELSE IF Head(fmt) = "%S"
         THEN IF IsDigit(Head(raw))
              THEN strptime_from(Tail(raw), Tail(fmt),
                                 [acc EXCEPT !.time = DigitValue(Head(raw))])
              ELSE None
    ELSE IF Head(raw) = Head(fmt)
         THEN strptime_from(Tail(raw), Tail(fmt), acc)
         ELSE None

\* datetime.strptime: the fields the format names, the others at their
\* default; None stands for the ValueError of a string that does not match.
strptime(raw, fmt) == strptime_from(raw, fmt, Epoch)

RECURSIVE strftime(_, _)
strftime(ts, fmt) ==
    IF fmt = <<>> THEN <<>>
    ELSE LET tok == Head(fmt)
             out == IF tok = "%d" THEN ToString(ts.date)
                    ELSE IF tok = "%S" THEN ToString(ts.time)
                    ELSE tok
         IN <<out>> \o strftime(ts, Tail(fmt))

\* ---------------------------------------------------------------- Config
FullFormat == <<"%d", "_", "%S">>
DateFormat == <<"%d">>
Formats == {FullFormat, DateFormat}

Prefixes == {<<"b", "/">>, <<"b", "/", "p">>, <<>>}

TTLs == {1}

Config == [backup_dir_key_prefix : Prefixes,
           backup_ttl_seconds : TTLs,
           remote_timestamp_format : Formats,
           local_timestamp_format : Formats]

NoConfig == [backup_dir_key_prefix |-> <<>>,
             backup_ttl_seconds |-> 0,
             remote_timestamp_format |-> <<>>,
             local_timestamp_format |-> <<>>]

ConfigFiles ==
    [status : {"ok"}, fields : Config]
        \cup [status : {"missing", "malformed", "missing_field"}, fields : {NoConfig}]

\* A loader that substitutes defaults instead of failing.
from_config_lenient(file) == [raised |-> "none", value |-> file.fields]

\* Config.from_config: the exception open(), json.load() or cls(**...) raises,
\* or the record read.
from_config(file) ==
    IF file.status = "missing" THEN [raised |-> "FileNotFoundError", value |-> NoConfig]
    ELSE IF file.status = "malformed" THEN [raised |-> "JSONDecodeError", value |-> NoConfig]
    ELSE IF file.status = "missing_field" THEN [raised |-> "TypeError", value |-> NoConfig]
    ELSE [raised |-> "none", value |-> file.fields]

\* ------------------------------------------------------- pure functions
\* path_to_datetime after line 124 has produced the stem.
path_to_datetime(cfg, timestamp_source, path) ==
    LET timestamp_format == IF timestamp_source = "remote"
                            THEN cfg.remote_timestamp_format
                            ELSE cfg.local_timestamp_format
        raw_datetime == with_suffix_empty(PathName(path))
    IN strptime(raw_datetime, timestamp_format)

\* Line 124 raises ValueError, outside the try, for a path with no name.
path_to_datetime_raises(path) == PathName(path) = <<>>

maybe_parse(cfg, path) ==
    LET timestamp == path_to_datetime(cfg, "local", path)
    IN IF timestamp # None THEN [timestamp |-> timestamp, path |-> path] ELSE None

to_remote_key(local_backup, cfg) ==
    cfg.backup_dir_key_prefix
        \o strftime(local_backup.timestamp, cfg.remote_timestamp_format) \o ZIP

\* An expiry test that already expires a backup at the threshold.
expired_at_threshold(cfg, current_timestamp, local_backup) ==
    current_timestamp - Ticks(local_backup.timestamp)
        >= cfg.backup_ttl_seconds * TicksPerSecond

expired(cfg, current_timestamp, local_backup) ==
    current_timestamp - Ticks(local_backup.timestamp)
        > cfg.backup_ttl_seconds * TicksPerSecond

\* list_objects_v2(Prefix=...): the keys of the bucket under the prefix.
list_objects_v2(objects, prefix) == {k \in objects : startswith(k, prefix)}

\* The timestamps backups_in_s3 returns for a listing with contents.
backups_in_s3(keys, cfg) ==
    {path_to_datetime(cfg, "remote", k) : k \in keys} \ {None}

is_zip_file(entry) ==
    entry.is_file /\ LET sfx == PathSuffix(PathName(entry.name))
                     IN Len(sfx) = 2 /\ <<sfx[1], lower(sfx[2])>> = ZIP

RECURSIVE backups_local_reversed(_, _)
\* A scan that hands the backups over in the reverse of the directory's order.
backups_local_reversed(cfg, entries) ==
    IF entries = <<>> THEN <<>>
    ELSE LET e == Head(entries)
             rest == backups_local_reversed(cfg, Tail(entries))
         IN IF is_zip_file(e) /\ maybe_parse(cfg, e.name) # None
            THEN rest \o <<maybe_parse(cfg, e.name)>>
            ELSE rest

RECURSIVE backups_local(_, _)
backups_local(cfg, entries) ==
    IF entries = <<>> THEN <<>>
    ELSE LET e == Head(entries)
             rest == backups_local(cfg, Tail(entries))
         IN IF is_zip_file(e) /\ maybe_parse(cfg, e.name) # None
            THEN <<maybe_parse(cfg, e.name)>> \o rest
            ELSE rest

\* A filter that forgets the remote set.
must_upload_ignoring_remote(cfg, remote, now, local) == ~expired(cfg, now, local)

must_upload(cfg, remote, now, local) ==
    local.timestamp \notin remote /\ ~expired(cfg, now, local)

RECURSIVE must_upload_filter(_, _, _, _)
must_upload_filter(cfg, remote, now, locals) ==
    IF locals = <<>> THEN <<>>
    ELSE LET rest == must_upload_filter(cfg, remote, now, Tail(locals))
         IN IF must_upload(cfg, remote, now, Head(locals))
            THEN <<Head(locals)>> \o rest
            ELSE rest

\* ------------------------------------------------------------ the inputs
LocalNames ==
    { <<"0", "_", "0", ".", "zip">>, <<"0", "_", "1", ".", "zip">>,
      <<"1", "_", "0", ".", "ZIP">>, <<"1", ".", "zip">>,
      <<"1", "_", "1", ".", "txt">> }

LocalEntries ==
    [name : LocalNames, is_file : {TRUE}]
        \cup {[name |-> <<"1", "_", "1", ".", "zip">>, is_file |-> FALSE]}

RECURSIVE Arrangements(_, _)
\* The sequences of at most n distinct elements of S.
Arrangements(S, n) ==
    IF n = 0 THEN {<<>>}
    ELSE {<<>>} \cup UNION {{<<e>> \o t : t \in Arrangements(S \ {e}, n - 1)} : e \in S}

LocalDirs ==
    [exists : {TRUE}, entries : Arrangements(LocalEntries, MaxEntries)]
        \cup {[exists |-> FALSE, entries |-> <<>>]}

StoredKeys ==
    { <<"b", "/", "0", "_", "1", ".", "zip">>, <<"b", "/", "1", ".", "zip">>,
      <<"b", "/", "p", "1", "_", "0", ".", "zip">>,
      <<"b", "/", "1", "_", "0", ".", "txt">>, <<"/">> }

Buckets == {B \in SUBSET StoredKeys : Cardinality(B) <= MaxStored}

\* ------------------------------------------------------------- the state
VARIABLES
    config_file,          \* config.json
    local_dir,            \* the directory cfg.path_local_backups names
    bucket,               \* the keys stored in the S3 bucket
    clock,                \* the wall clock's last reading, in ticks
    pc,                   \* where each run of main() stands
    raised,               \* the exception the __main__ handler caught
    predecessors,         \* the runs that had returned when this one started
    cfg, remote_backups, local_backups, timestamp_now, must_upload_backups,
    uploaded,             \* how many of must_upload_backups the loop is past
    calls                 \* each run's calls to S3 and to the directory

vars == <<config_file, local_dir, bucket, clock, pc, raised, predecessors, cfg,
          remote_backups, local_backups, timestamp_now, must_upload_backups,
          uploaded, calls>>

env == <<config_file, local_dir>>

Init ==
    /\ config_file \in ConfigFiles
    /\ local_dir \in LocalDirs
    /\ bucket \in Buckets
    /\ clock = TicksPerSecond
    /\ pc = [r \in Runs |-> "start"]
    /\ raised = [r \in Runs |-> "none"]
    /\ predecessors = [r \in Runs |-> {}]
    /\ cfg = [r \in Runs |-> NoConfig]
    /\ remote_backups = [r \in Runs |-> {}]
    /\ local_backups = [r \in Runs |-> <<>>]
    /\ timestamp_now = [r \in Runs |-> 0]
    /\ must_upload_backups = [r \in Runs |-> <<>>]
    /\ uploaded = [r \in Runs |-> 0]
    /\ calls = [r \in Runs |-> <<>>]

\* An exception leaves main() for the handler of lines 167-170.
Raise(r, exception) ==
    /\ pc' = [pc EXCEPT ![r] = "failed"]
    /\ raised' = [raised EXCEPT ![r] = exception]

Returned(r) == pc[r] \in {"done", "failed"}

\* Lines 142-146.  The runs are numbered in the order they start; a run may
\* start at any moment of an earlier one, or after it has returned.
LoadConfig(r) ==
    /\ pc[r] = "start"
    /\ \A q \in Runs : q < r => pc[q] # "start"
    /\ predecessors' = [predecessors EXCEPT ![r] = {q \in Runs : Returned(q)}]
    /\ LET loaded == from_config(config_file)
       IN IF loaded.raised # "none"
          THEN /\ Raise(r, loaded.raised)
               /\ cfg' = cfg
          ELSE /\ cfg' = [cfg EXCEPT ![r] = loaded.value]
               /\ pc' = [pc EXCEPT ![r] = "connected"]
               /\ raised' = raised
    /\ UNCHANGED <<env, bucket, clock, remote_backups, local_backups,
                   timestamp_now, must_upload_backups, uploaded, calls>>

\* Line 148, the listing answers.
ListRemote(r) ==
    /\ pc[r] = "connected"
    /\ LET keys == list_objects_v2(bucket, cfg[r].backup_dir_key_prefix)
       IN /\ calls' = [calls EXCEPT ![r] = Append(@, [op |-> "list", keys |-> keys, ok |-> TRUE])]
          /\ IF keys = {}
             THEN /\ Raise(r, "KeyError")
                  /\ remote_backups' = remote_backups
             ELSE IF \E k \in keys : path_to_datetime_raises(k)
             THEN /\ Raise(r, "ValueError")
                  /\ remote_backups' = remote_backups
             ELSE /\ remote_backups' = [remote_backups EXCEPT ![r] = backups_in_s3(keys, cfg[r])]
                  /\ pc' = [pc EXCEPT ![r] = "listed"]
                  /\ raised' = raised
    /\ UNCHANGED <<env, bucket, clock, predecessors, cfg, local_backups,
                   timestamp_now, must_upload_backups, uploaded>>

\* Line 148, the listing call itself fails.
ListRemoteFails(r) ==
    /\ pc[r] = "connected"
    /\ calls' = [calls EXCEPT ![r] = Append(@, [op |-> "list", keys |-> {}, ok |-> FALSE])]
    /\ Raise(r, "ClientError")
    /\ UNCHANGED <<env, bucket, clock, predecessors, cfg, remote_backups,
                   local_backups, timestamp_now, must_upload_backups, uploaded>>

\* Lines 150-160: the scan, the clock's reading and the filter.
ScanAndDiff(r) ==
    /\ pc[r] = "listed"
    /\ calls' = [calls EXCEPT ![r] = Append(@, [op |-> "iterdir", ok |-> local_dir.exists])]
    /\ IF ~local_dir.exists
       THEN /\ Raise(r, "FileNotFoundError")
            /\ UNCHANGED <<clock, local_backups, timestamp_now, must_upload_backups>>
       ELSE /\ local_backups' = [local_backups EXCEPT ![r] = backups_local(cfg[r], local_dir.entries)]
            /\ \E now \in clock..MaxClock :
                  /\ clock' = now
                  /\ timestamp_now' = [timestamp_now EXCEPT ![r] = now]
                  /\ must_upload_backups' = [must_upload_backups EXCEPT ![r] =
                        must_upload_filter(cfg[r], remote_backups[r], now, local_backups'[r])]
            /\ pc' = [pc EXCEPT ![r] = "uploading"]
            /\ raised' = raised
    /\ UNCHANGED <<env, bucket, predecessors, cfg, remote_backups, uploaded>>

UploadCall(r, ok) ==
    LET local_backup == must_upload_backups[r][uploaded[r] + 1]
    IN [op |-> "upload", path |-> local_backup.path,
        key |-> to_remote_key(local_backup, cfg[r]), ok |-> ok]

\* An iteration that looks into the bucket again and skips a stored key.
UploadIfAbsent(r) ==
    /\ pc[r] = "uploading"
    /\ uploaded[r] < Len(must_upload_backups[r])
    /\ bucket' = bucket \cup {UploadCall(r, TRUE).key}
    /\ calls' = [calls EXCEPT ![r] = IF UploadCall(r, TRUE).key \in bucket
                                     THEN @ ELSE Append(@, UploadCall(r, TRUE))]
    /\ uploaded' = [uploaded EXCEPT ![r] = @ + 1]
    /\ UNCHANGED <<env, clock, pc, raised, predecessors, cfg, remote_backups,
                   local_backups, timestamp_now, must_upload_backups>>

\* An iteration that swallows the exception and goes on with the queue.
UploadFailsAndContinues(r) ==
    /\ pc[r] = "uploading"
    /\ uploaded[r] < Len(must_upload_backups[r])
    /\ calls' = [calls EXCEPT ![r] = Append(@, UploadCall(r, FALSE))]
    /\ uploaded' = [uploaded EXCEPT ![r] = @ + 1]
    /\ UNCHANGED <<env, bucket, clock, pc, raised, predecessors, cfg, remote_backups,
                   local_backups, timestamp_now, must_upload_backups>>

\* Lines 162-163, one iteration whose upload_file succeeds.
Upload(r) ==
    /\ pc[r] = "uploading"
    /\ uploaded[r] < Len(must_upload_backups[r])
    /\ bucket' = bucket \cup {UploadCall(r, TRUE).key}
    /\ calls' = [calls EXCEPT ![r] = Append(@, UploadCall(r, TRUE))]
    /\ uploaded' = [uploaded EXCEPT ![r] = @ + 1]
    /\ UNCHANGED <<env, clock, pc, raised, predecessors, cfg, remote_backups,
                   local_backups, timestamp_now, must_upload_backups>>

\* Lines 162-163, one iteration whose upload_file raises.
UploadFails(r) ==
    /\ pc[r] = "uploading"
    /\ uploaded[r] < Len(must_upload_backups[r])
    /\ calls' = [calls EXCEPT ![r] = Append(@, UploadCall(r, FALSE))]
    /\ Raise(r, "S3UploadFailedError")
    /\ UNCHANGED <<env, bucket, clock, predecessors, cfg, remote_backups,
                   local_backups, timestamp_now, must_upload_backups, uploaded>>

\* The loop of line 162 is exhausted and main() returns.
Return(r) ==
    /\ pc[r] = "uploading"
    /\ uploaded[r] = Len(must_upload_backups[r])
    /\ pc' = [pc EXCEPT ![r] = "done"]
    /\ UNCHANGED <<env, bucket, clock, raised, predecessors, cfg, remote_backups,
                   local_backups, timestamp_now, must_upload_backups, uploaded,
                   calls>>

Next ==
    \E r \in Runs :
        \/ LoadConfig(r)
        \/ ListRemote(r)
        \/ ListRemoteFails(r)
        \/ ScanAndDiff(r)
        \/ Upload(r)
        \/ UploadFails(r)
        \/ Return(r)

Spec == Init /\ [][Next]_vars

\* ------------------------------------------------------ reading the state
UploadCallsOf(r) == SelectSeq(calls[r], LAMBDA c : c.op = "upload")

\* upload_backup was called in run r for the file at path.
Attempted(r, path) ==
    \E i \in 1..Len(calls[r]) : calls[r][i].op = "upload" /\ calls[r][i].path = path

\* The listing of run r answered, with these keys.
Listed(r) == Len(calls[r]) >= 1 /\ calls[r][1].ok

ListedKeys(r) == calls[r][1].keys

\* The directory scan of run r succeeded.
Scanned(r) == Len(calls[r]) >= 2 /\ calls[r][2].ok

\* The elapsed age of a backup at the instant run r read the clock, in ticks.
Elapsed(r, local_backup) == timestamp_now[r] - Ticks(local_backup.timestamp)

Threshold(r) == cfg[r].backup_ttl_seconds * TicksPerSecond

Stem(path) == with_suffix_empty(PathName(path))

\* The directory entries run r is to upload: archives whose name parses,
\* whose timestamp the listing did not hold and whose age is within the TTL.
Survives(r, entry) ==
    /\ is_zip_file(entry)
    /\ strptime(Stem(entry.name), cfg[r].local_timestamp_format) # None
    /\ strptime(Stem(entry.name), cfg[r].local_timestamp_format) \notin remote_backups[r]
    /\ timestamp_now[r]
          - Ticks(strptime(Stem(entry.name), cfg[r].local_timestamp_format))
          <= Threshold(r)

RECURSIVE Names(_)
Names(entries) ==
    IF entries = <<>> THEN <<>> ELSE <<Head(entries).name>> \o Names(Tail(entries))

RECURSIVE Paths(_)
Paths(uploads) ==
    IF uploads = <<>> THEN <<>> ELSE <<Head(uploads).path>> \o Paths(Tail(uploads))

\* ------------------------------------------------------------- the claims

\* C1: a run that starts after another run has completed all its uploads,
\* with the same directory and no other change to the bucket, makes no upload
\* call, whatever the configuration.
C1_RerunUploadsNothing ==
    \A q \in Runs : \A r \in Runs :
        (q \in predecessors[r] /\ pc[q] = "done") => UploadCallsOf(r) = <<>>

\* C2: upload_backup is never called for a local backup whose timestamp is in
\* the remote set backups_in_s3 returned, expired or not.
C2_StoredTimestampNeverUploaded ==
    \A r \in Runs : \A i \in 1..Len(local_backups[r]) :
        local_backups[r][i].timestamp \in remote_backups[r]
            => ~Attempted(r, local_backups[r][i].path)

\* C2 witness: a finished run that held an expired and a fresh local backup,
\* both with their timestamp in the remote set.
C2_Witness ==
    \E r \in Runs :
        /\ pc[r] = "done"
        /\ \E i, j \in 1..Len(local_backups[r]) :
              /\ local_backups[r][i].timestamp \in remote_backups[r]
              /\ local_backups[r][j].timestamp \in remote_backups[r]
              /\ Elapsed(r, local_backups[r][i]) > Threshold(r)
              /\ Elapsed(r, local_backups[r][j]) <= Threshold(r)

C4_EmptyListingHandled ==
    \A r \in Runs : (Listed(r) /\ ListedKeys(r) = {}) =>
        /\ raised[r] # "KeyError"
        /\ remote_backups[r] = {}
        /\ pc[r] = "done" =>
              \A i \in 1..Len(local_backups[r]) :
                  Elapsed(r, local_backups[r][i]) <= Threshold(r)
                      => Attempted(r, local_backups[r][i].path)

\* C5: a stored key or a local archive whose stem does not match the format
\* is left out of the result and makes neither function raise; one that
\* matches is in the result with its parsed timestamp.
C5_UnparsableItemsExcluded ==
    \A r \in Runs :
        /\ (Listed(r) /\ ListedKeys(r) # {}) =>
              /\ raised[r] # "ValueError"
              /\ remote_backups[r] =
                    {t \in Timestamps : \E k \in ListedKeys(r) :
                        strptime(Stem(k), cfg[r].remote_timestamp_format) = t}
        /\ Scanned(r) =>
              \A n \in 1..Len(local_dir.entries) :
                  LET e == local_dir.entries[n]
                      t == strptime(Stem(e.name), cfg[r].local_timestamp_format)
                  IN is_zip_file(e) =>
                        /\ t = None =>
                              \A i \in 1..Len(local_backups[r]) :
                                  local_backups[r][i].path # e.name
                        /\ t # None =>
                              \E i \in 1..Len(local_backups[r]) :
                                  local_backups[r][i] = [timestamp |-> t, path |-> e.name]

\* C6: when the configuration cannot be loaded, no run makes a listing call,
\* an upload call or any other call.
C6_ConfigFailureNoNetwork ==
    config_file.status # "ok" => \A r \in Runs : calls[r] = <<>>

\* C6 witness: the configuration could not be loaded and both runs are over.
C6_Witness ==
    config_file.status # "ok" /\ \A r \in Runs : pc[r] = "failed"

\* C7: an upload call that fails is the last call of its run: the run is
\* over, nothing later in the queue is uploaded, the call is not repeated, and
\* the keys uploaded before it in that run are still in the bucket.
C7_UploadFailureHaltsQueue ==
    \A r \in Runs : \A i \in 1..Len(calls[r]) :
        (calls[r][i].op = "upload" /\ ~calls[r][i].ok) =>
            /\ i = Len(calls[r])
            /\ pc[r] = "failed"
            /\ uploaded[r] < Len(must_upload_backups[r])
            /\ Paths(UploadCallsOf(r))
                  = Paths(SubSeq(must_upload_backups[r], 1, uploaded[r] + 1))
            /\ \A j \in 1..(i - 1) :
                  calls[r][j].op = "upload" =>
                      calls[r][j].ok /\ calls[r][j].key \in bucket

\* C7 witness: an upload failed after an earlier one of the same run had
\* succeeded and while a later backup was still queued.
C7_Witness ==
    \E r \in Runs :
        /\ raised[r] = "S3UploadFailedError"
        /\ uploaded[r] >= 1
        /\ Len(must_upload_backups[r]) >= uploaded[r] + 2

\* C8: when two runs have both completed, a local backup whose timestamp
\* neither listing held and that neither run found expired has been uploaded
\* by both.
C8_ConcurrentRunsBothUpload ==
    (\A r \in Runs : pc[r] = "done") =>
        \A q \in Runs : \A i \in 1..Len(local_backups[q]) :
            LET b == local_backups[q][i]
            IN (\A r \in Runs : /\ b.timestamp \notin remote_backups[r]
                                /\ Elapsed(r, b) <= Threshold(r))
                  => \A r \in Runs :
                        \E n \in 1..Len(calls[r]) :
                            /\ calls[r][n].op = "upload"
                            /\ calls[r][n].path = b.path
                            /\ calls[r][n].ok

\* C8 witness: both runs uploaded the same key, which neither listing held,
\* under a configuration whose keys parse back to the timestamp uploaded.
C8_Witness ==
    /\ \A r \in Runs : pc[r] = "done"
    /\ \E i \in 1..Len(local_backups[1]) :
          LET b == local_backups[1][i]
              key == to_remote_key(b, cfg[1])
          IN /\ path_to_datetime(cfg[1], "remote", key) = b.timestamp
             /\ \A r \in Runs :
                   /\ key \notin ListedKeys(r)
                   /\ \E n \in 1..Len(calls[r]) :
                         calls[r][n].op = "upload" /\ calls[r][n].key = key

\* C9: a run that completes has made one listing call, then one scan, then
\* one successful upload call for each surviving backup and for nothing else,
\* in the order of the directory's enumeration.
C9_UploadsAreTheSurvivorsInScanOrder ==
    \A r \in Runs : pc[r] = "done" =>
        /\ Len(calls[r]) >= 2
        /\ calls[r][1].op = "list"
        /\ calls[r][2].op = "iterdir"
        /\ \A i \in 3..Len(calls[r]) : calls[r][i].op = "upload" /\ calls[r][i].ok
        /\ Paths(UploadCallsOf(r))
              = Names(SelectSeq(local_dir.entries, LAMBDA e : Survives(r, e)))

\* C9 witness: a finished run that made two upload calls or more and left a
\* scanned backup out.
C9_Witness ==
    \E r \in Runs :
        /\ pc[r] = "done"
        /\ Len(UploadCallsOf(r)) >= 2
        /\ Len(local_backups[r]) > Len(UploadCallsOf(r))

\* C10: the key to_remote_key builds for a local backup parses back, as a
\* remote key, to that backup's timestamp, whatever the configuration.
C10_RemoteKeyRoundTrip ==
    \A r \in Runs : \A i \in 1..Len(local_backups[r]) :
        path_to_datetime(cfg[r], "remote", to_remote_key(local_backups[r][i], cfg[r]))
            = local_backups[r][i].timestamp

=============================================================================
